---- MODULE Spec2Model ----
(***************************************************************************)
(* The extraction pipeline of jobflow-agent: shared/extraction/pipeline.py *)
(* (extract_job) with the components it sequences: the URL check, the      *)
(* robots.txt checker, the two fetchers, the BeautifulSoup parser, the LLM *)
(* extractor, the LLM quality validator and the PII filter.                *)
(*                                                                         *)
(* Representation.  Python str values that the code trims or compares      *)
(* (title, company) are sequences of one-character strings; an optional    *)
(* value is None == <<>> or Some(x) == <<x>>; a float confidence c is the  *)
(* integer 100 * c.  One invocation of extract_job is a run of the program *)
(* counter pc from "ValidateURL" to "done" (returned) or "raised" (an      *)
(* exception left extract_job).  Spec is extract_job; FunctionSpec applies *)
(* the component functions (is_complete, the PII filter, the description   *)
(* extractors) to arguments of their own, with pc = "idle".                *)
(***************************************************************************)
EXTENDS Integers, Sequences, FiniteSets, TLC

VARIABLES
    pc,           \* position inside extract_job, or "idle" / "done" / "raised"
    url,          \* the url argument, as urlparse splits it
    flags,        \* the five keyword arguments of extract_job
    html,         \* local html: None or Some(document)
    result,       \* local result: None or Some(ExtractionResult)
    metrics,      \* local metrics: ExtractionMetrics
    exc,          \* the exception that left extract_job, "" if none
    robots_cache, \* lru_cache of _fetch_robots_txt: robots_url -> entry
    bs4_params,   \* positional parameters of the linked extract_with_bs4
    ncalls,       \* invocations of extract_job made so far in the process
    calls,        \* per invocation: how often each external stage was called
    html_via,     \* per invocation: the fetcher that produced html
    fields_via,   \* per invocation: <<fetcher, extractor>> of result's fields
    raw,          \* per invocation: the result as extraction left it
    prior,        \* per invocation: metrics.confidence when step 5 started
    report,       \* per invocation: the answer the validator call got
    parses,       \* per invocation: outcome of each structured parse
    op,           \* the function under evaluation: "extract_job" or a component
    arg,          \* the argument a component function is applied to
    out,          \* the values a component function returned, in order
    thread,       \* the threads of the process: where each is in its call, its locals
    cache,        \* lru_cache of _fetch_robots_txt, least recently used entry first
    gets,         \* robots_url -> the GETs issued for it so far
    _browser,     \* playwright_fetch._browser: None or Some(browser)
    browsers,     \* the browser processes launched and not closed
    pages         \* the pages that are open: [browser, owner]

\* the state of extract_job and of the process around it
job_vars == <<pc, url, flags, html, result, metrics, exc, robots_cache, bs4_params,
              ncalls, calls, html_via, fields_via, raw, prior, report, parses>>

\* the state of a component function evaluated on its own
fn_vars == <<op, arg, out>>

\* what the threads of the process share, and the threads
shared_vars == <<thread, cache, gets, _browser, browsers, pages>>

vars == <<job_vars, fn_vars, shared_vars>>

\* no thread besides the caller's, nothing cached, no browser
NoThreads ==
    /\ thread = <<>>
    /\ cache = <<>>
    /\ gets = <<>>
    /\ _browser = <<>>
    /\ browsers = {}
    /\ pages = {}

-----------------------------------------------------------------------------
(* Bounds *)

\* invocations of extract_job in one process
MaxCalls == 2

\* fragments a text given to filter_pii is put together from
MaxFragments == 2

\* successive applications of filter_pii to a text
MaxApplications == 2

\* threads that call into the extraction modules at the same time
MaxThreads == 2

-----------------------------------------------------------------------------
(* Python values *)

None == <<>>
Some(x) == <<x>>

\* str.strip(): whitespace characters
Whitespace == {" ", "\t", "\n"}

RECURSIVE LStrip(_)
LStrip(s) == IF s = <<>> THEN s
             ELSE IF Head(s) \in Whitespace THEN LStrip(Tail(s)) ELSE s

RECURSIVE RStrip(_)
RStrip(s) == IF s = <<>> THEN s
             ELSE IF s[Len(s)] \in Whitespace THEN RStrip(SubSeq(s, 1, Len(s) - 1)) ELSE s

strip(s) == RStrip(LStrip(s))

\* truth value of an optional str: None and "" are false
Truthy(o) == o # None /\ o[1] # <<>>

Max(a, b) == IF b > a THEN b ELSE a
Min(a, b) == IF b < a THEN b ELSE a

\* str.splitlines(): "\n", "\r" and "\r\n" end a line
LineBreaks == {"\n", "\r"}

RECURSIVE splitlines(_)
splitlines(s) ==
    LET breaks == {i \in 1..Len(s) : s[i] \in LineBreaks}
    IN  IF s = <<>> THEN <<>>
        ELSE IF breaks = {} THEN <<s>>
        ELSE LET i == CHOOSE i \in breaks : \A j \in breaks : i <= j
                 j == IF s[i] = "\r" /\ i < Len(s) /\ s[i + 1] = "\n" THEN i + 1 ELSE i
             IN  <<SubSeq(s, 1, i - 1)>> \o splitlines(SubSeq(s, j + 1, Len(s)))

\* "\n".join(lines)
RECURSIVE join(_)
join(lines) ==
    IF lines = <<>> THEN <<>>
    ELSE IF Len(lines) = 1 THEN lines[1]
    ELSE lines[1] \o <<"\n">> \o join(Tail(lines))

-----------------------------------------------------------------------------
(* bs4_extractor.py: ExtractionResult *)

DEFAULT_TITLE == <<"U","n","k","n","o","w","n"," ","T","i","t","l","e">>
DEFAULT_COMPANY == <<"U","n","k","n","o","w","n">>

ExtractionResult(t, c, l, s, d, src) ==
    [title |-> t, company |-> c, location |-> l, salary |-> s,
     description |-> d, source |-> src]

\* variant: the fields compared without .strip()
is_complete_unstripped(r) ==
    /\ r.title # DEFAULT_TITLE
    /\ r.company # DEFAULT_COMPANY
    /\ r.title # <<>>
    /\ r.company # <<>>

is_complete(r) ==
    /\ r.title # DEFAULT_TITLE
    /\ r.company # DEFAULT_COMPANY
    /\ strip(r.title) # <<>>
    /\ strip(r.company) # <<>>

-----------------------------------------------------------------------------
(* Sample text *)

S_Eng == <<"E","n","g">>
S_Acme == <<"A","c","m","e">>
S_Blank == <<" ">>
S_Padded == <<" ","E","n","g"," ">>
S_At == <<"@">>

\* descriptions
D_Clean == <<"G","r","e","a","t"," ","r","o","l","e">>
\* the description of Scenario C
D_Contact == <<"C","o","n","t","a","c","t"," ","h","i","r","i","n","g","@","e","x","a","m","p","l","e",".","c","o","m",","," ","c","a","l","l"," ","5","5","5","-","1","2","3","-","4","5","6","7">>
\* a number in the format the UK and international patterns are written for
D_Leak == <<"C","a","l","l"," ","+","4","4"," ","2","0"," ","7","9","4","6"," ","0","9","5","8">>

-----------------------------------------------------------------------------
(* bs4_extractor.py: the parser.  An HTML document is the record of what   *)
(* the parser reads from it: the JobPosting JSON-LD title and              *)
(* hiringOrganization, the og:title meta, the <title> tag, the contents of *)
(* the four company meta tags in the order of meta_keys, the data-company  *)
(* attribute, and the location, salary and description the field           *)
(* extractors find.  nonempty is the truth value of the str.               *)

Html(ne, ldt, og, tt, org, meta, dc, loc, sal, desc) ==
    [nonempty |-> ne, ld_title |-> ldt, og_title |-> og, title_tag |-> tt,
     hiring_org |-> org, meta |-> meta, data_company |-> dc,
     location |-> loc, salary |-> sal, description |-> desc]

NoMeta == <<None, None, None, None>>

\* response.text of an empty body
EMPTY_HTML == Html(FALSE, None, None, None, None, NoMeta, None, None, None, None)
\* markup without any job field
BARE_HTML == Html(TRUE, None, None, None, None, NoMeta, None, None, None, None)
\* a complete JobPosting block (SAMPLE_JOB_HTML of the integration tests)
JSONLD_HTML == Html(TRUE, Some(S_Padded), None, Some(S_Eng),
                    Some([kind |-> "dict", name |-> S_Acme]), NoMeta, None,
                    Some(<<"San Francisco, CA">>), Some(<<"USD 150,000 - 200,000 / YEAR">>),
                    Some(D_Contact))
\* only a <title>
TITLE_HTML == Html(TRUE, None, None, Some(S_Eng), None, NoMeta, None, None, None, Some(D_Clean))
\* og:title of blanks, company from the third meta key after a bare "@"
BLANK_OG_HTML == Html(TRUE, None, Some(S_Blank), Some(S_Eng), None,
                      <<Some(S_At), None, Some(S_Acme), None>>, None, None, None, None)
\* <title> and a data-company attribute
META_HTML == Html(TRUE, None, None, Some(S_Eng), Some([kind |-> "dict", name |-> <<>>]),
                  <<Some(S_Blank), None, None, None>>, Some(S_Acme), None, None, Some(D_Leak))

Documents == {EMPTY_HTML, BARE_HTML, JSONLD_HTML, TITLE_HTML, BLANK_OG_HTML, META_HTML}

_extract_title(doc) ==
    IF Truthy(doc.ld_title) THEN strip(doc.ld_title[1])
    ELSE IF Truthy(doc.og_title) THEN strip(doc.og_title[1])
    ELSE IF Truthy(doc.title_tag) THEN strip(doc.title_tag[1])
    ELSE DEFAULT_TITLE

\* the meta tags that pass the test of lines 110-113
MetaHits(doc) ==
    {i \in 1..Len(doc.meta) :
        /\ Truthy(doc.meta[i])
        /\ strip(doc.meta[i][1]) # <<>>
        /\ strip(doc.meta[i][1]) # S_At}

_extract_company(doc) ==
    IF /\ doc.hiring_org # None
       /\ \/ doc.hiring_org[1].kind = "str"
          \/ doc.hiring_org[1].kind = "dict" /\ doc.hiring_org[1].name # <<>>
    THEN strip(doc.hiring_org[1].name)
    ELSE IF MetaHits(doc) # {}
    THEN strip(doc.meta[CHOOSE i \in MetaHits(doc) : \A j \in MetaHits(doc) : i <= j][1])
    ELSE IF doc.data_company # None THEN strip(doc.data_company[1])
    ELSE DEFAULT_COMPANY

extract_with_bs4(doc) ==
    ExtractionResult(_extract_title(doc), _extract_company(doc), doc.location,
                     doc.salary, doc.description, "bs4")

MAX_DESCRIPTION == 10000
MIN_MEANINGFUL == 200

\* lines 228-231 on the lines of a text: each stripped, the empty ones dropped
RECURSIVE stripped_lines(_)
stripped_lines(lines) ==
    IF lines = <<>> THEN <<>>
    ELSE IF strip(Head(lines)) = <<>> THEN stripped_lines(Tail(lines))
    ELSE <<strip(Head(lines))>> \o stripped_lines(Tail(lines))

\* _clean_description, on text without entities and tags (html.unescape and the
\* tag stripping of lines 222-227 leave such text as it is)
_clean_description(text) ==
    LET cleaned == join(stripped_lines(splitlines(text)))
    IN  SubSeq(cleaned, 1, Min(Len(cleaned), MAX_DESCRIPTION))

\* what _extract_description reads from a page: the description of the JSON-LD
\* block, the text of the node each selector finds (in the order of selectors),
\* and what trafilatura.extract returns
DescriptionPage(ld, nodes, traf) == [json_ld |-> ld, nodes |-> nodes, trafilatura |-> traf]

_extract_description(page) ==
    LET hits == {i \in 1..Len(page.nodes) :
                    /\ page.nodes[i] # None
                    /\ Len(_clean_description(page.nodes[i][1])) > MIN_MEANINGFUL}
    IN  IF Truthy(page.json_ld) /\ _clean_description(page.json_ld[1]) # <<>>
        THEN Some(_clean_description(page.json_ld[1]))
        ELSE IF hits # {}
        THEN Some(_clean_description(page.nodes[CHOOSE i \in hits : \A j \in hits : i <= j][1]))
        ELSE IF Truthy(page.trafilatura) /\ Len(page.trafilatura[1]) > MIN_MEANINGFUL
        THEN Some(_clean_description(page.trafilatura[1]))
        ELSE None

-----------------------------------------------------------------------------
(* pipeline.py: _is_valid_url.  A url is the record urlparse makes of it.  *)

Url(sch, loc, host, path) == [scheme |-> sch, netloc |-> loc, hostname |-> host, path |-> path]

blocked_hosts == {"localhost", "127.0.0.1", "0.0.0.0", "::1"}

Urls == {
    Url("https", "example.com", Some("example.com"), "/jobs/1"),
    Url("http", "jobs.example.org", Some("jobs.example.org"), "/jobs/1"),
    Url("http", "localhost", Some("localhost"), "/job"),
    Url("https", "[::1]:8000", Some("::1"), "/job"),
    Url("ftp", "example.com", Some("example.com"), "/jobs/1"),
    Url("", "", None, "not-a-valid-url"),
    Url("https", "", None, "/jobs/1") }

\* variant: the scheme test of line 47 left out
_is_valid_url_any_scheme(u) ==
    IF u.scheme = "" \/ u.netloc = "" THEN FALSE
    ELSE u.hostname = None \/ u.hostname[1] \notin blocked_hosts

_is_valid_url(u) ==
    IF u.scheme = "" \/ u.netloc = "" THEN FALSE
    ELSE IF u.scheme \notin {"http", "https"} THEN FALSE
    ELSE u.hostname = None \/ u.hostname[1] \notin blocked_hosts

-----------------------------------------------------------------------------
(* robots_checker.py.  A parsed robots.txt is the set of paths it          *)
(* disallows for the agent; the cached entry is None (no parser) or        *)
(* Some(rules).                                                            *)

get_robots_url(u) == u.scheme \o "://" \o u.netloc \o "/robots.txt"

\* what the GET of a robots.txt can answer
RobotsAnswers == {
    [kind |-> "status", code |-> 200, disallow |-> {}],
    [kind |-> "status", code |-> 200, disallow |-> {"/jobs/1"}],
    [kind |-> "status", code |-> 404, disallow |-> {}],
    [kind |-> "status", code |-> 410, disallow |-> {}],
    [kind |-> "status", code |-> 503, disallow |-> {}],
    [kind |-> "RequestException", code |-> 0, disallow |-> {}] }

\* variant: lines 42-49 acting on their comment, every path disallowed after a
\* status other than 200, 404 and 410 and after a failed request
_fetch_robots_txt_conservative(answer) ==
    IF answer.kind = "status" /\ answer.code = 200 THEN Some(answer.disallow)
    ELSE IF answer.kind = "status" /\ answer.code \in {404, 410} THEN None
    ELSE Some({"/jobs/1", "/jobs/2", "/job"})

\* the value _fetch_robots_txt computes from the answer
_fetch_robots_txt(answer) ==
    IF answer.kind = "status" /\ answer.code = 200 THEN Some(answer.disallow)
    ELSE None

\* is_allowed, given the entry _fetch_robots_txt returned
is_allowed(rp, u) == IF rp = None THEN TRUE ELSE u.path \notin rp[1]

-----------------------------------------------------------------------------
(* Python's re, as far as pii_filter.py uses it.  A text is a sequence of  *)
(* one-character strings.  A pattern is a sequence of items: a character   *)
(* class with a greedy repetition count, a literal word, the assertion \b, *)
(* or the assertion $.  A group with alternatives is the sequence of its          *)
(* alternatives in the order the engine tries them.  re.IGNORECASE is in   *)
(* the classes: a letter of the pattern stands for both its cases.         *)

Lower == <<"a","b","c","d","e","f","g","h","i","j","k","l","m","n","o","p","q","r","s","t","u","v","w","x","y","z">>
Upper == <<"A","B","C","D","E","F","G","H","I","J","K","L","M","N","O","P","Q","R","S","T","U","V","W","X","Y","Z">>

Letters == {Lower[i] : i \in 1..Len(Lower)} \cup {Upper[i] : i \in 1..Len(Upper)}
Digits == {"0", "1", "2", "3", "4", "5", "6", "7", "8", "9"}
\* \w
WordChars == Letters \cup Digits \cup {"_"}
\* \s
RegexSpace == {" ", "\t", "\n", "\r"}
Punctuation == {"@", ".", "-", "+", "(", ")", "/", "_", "%", "|", ":", ",", "[", "]", "*", "$", "!", "?"}
\* the characters of the texts considered
Chars == Letters \cup Digits \cup RegexSpace \cup Punctuation
\* "." matches every character but the newline
AnyChar == Chars \ {"\n"}

\* the two cases of a letter; any other character alone
CaseSet(c) ==
    IF \E i \in 1..Len(Lower) : c \in {Lower[i], Upper[i]}
    THEN LET i == CHOOSE i \in 1..Len(Lower) : c \in {Lower[i], Upper[i]}
         IN  {Lower[i], Upper[i]}
    ELSE {c}

\* X{lo,hi}; hi = None for no upper limit
Rep(S, lo, hi) == [t |-> "class", set |-> S, min |-> lo, max |-> hi]
One(S) == Rep(S, 1, Some(1))
Opt(S) == Rep(S, 0, Some(1))
Plus(S) == Rep(S, 1, None)
Star(S) == Rep(S, 0, None)
AtLeast(S, n) == Rep(S, n, None)
Exactly(S, n) == Rep(S, n, Some(n))
Between(S, lo, hi) == Rep(S, lo, Some(hi))
WordBoundary == [t |-> "\\b", set |-> {}, min |-> 0, max |-> None]
EndOfText == [t |-> "$", set |-> {}, min |-> 0, max |-> None]

\* a literal word of a pattern: one item, the cases of its letters in order
Lit(w) == <<[t |-> "literal", set |-> [i \in 1..Len(w) |-> CaseSet(w[i])],
             min |-> 0, max |-> None]>>

\* does the literal word lit stand in s from offset pos on
LiteralAt(lit, s, pos) ==
    /\ pos + Len(lit) <= Len(s)
    /\ \A i \in 1..Len(lit) : s[pos + i] \in lit[i]

\* is the character at index i a word character (none outside the text)
IsWord(s, i) == i >= 1 /\ i <= Len(s) /\ s[i] \in WordChars

\* \b between the characters at indices pos and pos + 1
AtBoundary(s, pos) == IsWord(s, pos) # IsWord(s, pos + 1)

\* how many characters from index pos + 1 on are in S
RunLen(s, pos, S) ==
    CHOOSE n \in 0..(Len(s) - pos) :
        /\ \A j \in (pos + 1)..(pos + n) : s[j] \in S
        /\ pos + n = Len(s) \/ s[pos + n + 1] \notin S

\* the backtracking matcher: items k.. of p against s from offset pos; the
\* offset where the match ends, or None.  A repetition takes as many
\* characters as it can and gives them back one at a time: of the counts
\* with which the rest of the pattern matches, the greatest decides.
RECURSIVE MatchFrom(_, _, _, _)
MatchFrom(p, k, s, pos) ==
    IF k > Len(p) THEN Some(pos)
    ELSE IF p[k].t = "\\b"
    THEN IF AtBoundary(s, pos) THEN MatchFrom(p, k + 1, s, pos) ELSE None
    ELSE IF p[k].t = "$"
    THEN IF pos = Len(s) THEN MatchFrom(p, k + 1, s, pos) ELSE None
    ELSE IF p[k].t = "literal"
    THEN IF LiteralAt(p[k].set, s, pos)
         THEN MatchFrom(p, k + 1, s, pos + Len(p[k].set)) ELSE None
    ELSE IF p[k].min = 1 /\ p[k].max = Some(1)
    THEN IF pos < Len(s) /\ s[pos + 1] \in p[k].set
         THEN MatchFrom(p, k + 1, s, pos + 1) ELSE None
    ELSE LET run == RunLen(s, pos, p[k].set)
             most == IF p[k].max = None THEN run ELSE Min(run, p[k].max[1])
             tries == {<<n, MatchFrom(p, k + 1, s, pos + n)>> : n \in p[k].min..most}
             good == {t \in tries : t[2] # None}
         IN  IF good = {} THEN None
             ELSE (CHOOSE t \in good : \A u \in good : u[1] <= t[1])[2]

\* the first alternative of alts that matches at offset pos decides
MatchAt(alts, s, pos) ==
    LET ends == [k \in 1..Len(alts) |-> MatchFrom(alts[k], 1, s, pos)]
        hits == {k \in 1..Len(alts) : ends[k] # None}
    IN  IF hits = {} THEN None
        ELSE ends[CHOOSE k \in hits : \A j \in hits : k <= j]

\* re.match(pattern, line): a match at the start of line
match(alts, line) == MatchAt(alts, line, 0) # None

\* re.sub(pattern, repl, s): the leftmost match from offset pos on is
\* replaced, and the scan goes on where that match ended
RECURSIVE SubFrom(_, _, _, _)
SubFrom(alts, repl, s, pos) ==
    LET starts == {i \in pos..(Len(s) - 1) : MatchAt(alts, s, i) # None}
    IN  IF starts = {} THEN SubSeq(s, pos + 1, Len(s))
        ELSE LET i == CHOOSE i \in starts : \A j \in starts : i <= j
                 e == MatchAt(alts, s, i)[1]
             IN  SubSeq(s, pos + 1, i) \o repl \o SubFrom(alts, repl, s, e)

sub(alts, repl, s) == SubFrom(alts, repl, s, 0)

-----------------------------------------------------------------------------
(* pii_filter.py *)

\* the literal words of the patterns
\* the literal words of the patterns
Word ==
    [linkedin_com_in |-> <<"l","i","n","k","e","d","i","n",".","c","o","m","/","i","n","/">>,
     question |-> <<"q","u","e","s","t","i","o","n">>,
     for |-> <<"f","o","r">>,
     please |-> <<"p","l","e","a","s","e">>,
     feel |-> <<"f","e","e","l">>,
     free |-> <<"f","r","e","e">>,
     to |-> <<"t","o">>,
     contact |-> <<"c","o","n","t","a","c","t">>,
     reach |-> <<"r","e","a","c","h">>,
     out |-> <<"o","u","t">>,
     email |-> <<"e","m","a","i","l">>,
     recruiter |-> <<"r","e","c","r","u","i","t","e","r">>,
     hiring |-> <<"h","i","r","i","n","g">>,
     manager |-> <<"m","a","n","a","g","e","r">>,
     point |-> <<"p","o","i","n","t">>,
     of |-> <<"o","f">>,
     apply |-> <<"a","p","p","l","y">>,
     send |-> <<"s","e","n","d">>,
     your |-> <<"y","o","u","r">>,
     resume |-> <<"r","e","s","u","m","e">>,
     cv |-> <<"c","v">>,
     application |-> <<"a","p","p","l","i","c","a","t","i","o","n">>]

EmailLocal == Letters \cup Digits \cup {".", "_", "%", "+", "-"}
EmailDomain == Letters \cup Digits \cup {".", "-"}
\* [A-Z|a-z]
EmailTld == Letters \cup {"|"}
\* [-.\s]
PhoneSep == {"-", "."} \cup RegexSpace

\* \b[A-Za-z0-9._%+-]+@[A-Za-z0-9.-]+\.[A-Z|a-z]{2,}\b
EMAIL_PATTERN ==
    << <<WordBoundary, Plus(EmailLocal), One({"@"}), Plus(EmailDomain), One({"."}),
         AtLeast(EmailTld, 2), WordBoundary>> >>

\* \(?\d{3}\)?[-.\s]?\d{3}[-.\s]?\d{4}\b
UsPhoneBody ==
    <<Opt({"("}), Exactly(Digits, 3), Opt({")"}), Opt(PhoneSep), Exactly(Digits, 3),
      Opt(PhoneSep), Exactly(Digits, 4), WordBoundary>>

\* \b(?:\+?1[-.\s]?)?\(?\d{3}\)?[-.\s]?\d{3}[-.\s]?\d{4}\b
US_PHONE_PATTERN ==
    << <<WordBoundary, Opt({"+"}), One({"1"}), Opt(PhoneSep)>> \o UsPhoneBody,
       <<WordBoundary>> \o UsPhoneBody >>

\* \s?\d{2,4}\s?\d{3,4}\s?\d{3,4}\b
UkPhoneBody ==
    <<Opt(RegexSpace), Between(Digits, 2, 4), Opt(RegexSpace), Between(Digits, 3, 4),
      Opt(RegexSpace), Between(Digits, 3, 4), WordBoundary>>

\* \b(?:\+44|0)\s?\d{2,4}\s?\d{3,4}\s?\d{3,4}\b
UK_PHONE_PATTERN ==
    << <<WordBoundary, One({"+"}), One({"4"}), One({"4"})>> \o UkPhoneBody,
       <<WordBoundary, One({"0"})>> \o UkPhoneBody >>

\* \b\+\d{1,3}[-.\s]?\d{1,4}[-.\s]?\d{1,4}[-.\s]?\d{1,9}\b
INTL_PHONE_PATTERN ==
    << <<WordBoundary, One({"+"}), Between(Digits, 1, 3), Opt(PhoneSep),
         Between(Digits, 1, 4), Opt(PhoneSep), Between(Digits, 1, 4), Opt(PhoneSep),
         Between(Digits, 1, 9), WordBoundary>> >>

\* linkedin\.com/in/[A-Za-z0-9_-]+/?
LINKEDIN_PATTERN ==
    << Lit(Word.linkedin_com_in)
       \o <<Plus(Letters \cup Digits \cup {"_", "-"}), Opt({"/"})>> >>

\* @[A-Za-z0-9_]{3,}
HANDLE_PATTERN == << <<One({"@"}), AtLeast(WordChars, 3)>> >>

T_EMAIL == <<"[","E","M","A","I","L","]">>
T_PHONE == <<"[","P","H","O","N","E","]">>
T_LINKEDIN == <<"[","L","I","N","K","E","D","I","N","]">>
T_HANDLE == <<"[","H","A","N","D","L","E","]">>

PII_PATTERNS ==
    <<[pattern |-> EMAIL_PATTERN, replacement |-> T_EMAIL],
      [pattern |-> US_PHONE_PATTERN, replacement |-> T_PHONE],
      [pattern |-> UK_PHONE_PATTERN, replacement |-> T_PHONE],
      [pattern |-> INTL_PHONE_PATTERN, replacement |-> T_PHONE],
      [pattern |-> LINKEDIN_PATTERN, replacement |-> T_LINKEDIN],
      [pattern |-> HANDLE_PATTERN, replacement |-> T_HANDLE]>>

\* \s+ and \s*
Spaces == <<Plus(RegexSpace)>>
MaybeSpaces == <<Star(RegexSpace)>>

\* the alternatives of a group that may be absent
Optional(p) == {<<>>, p}

\* [A-Z][a-z]+.*$
NameAndRest == <<One(Letters), Plus(Letters), Star(AnyChar), EndOfText>>

\* ^(?:for\s+)?questions?,?\s+(?:please\s+)?
\*  (?:feel\s+free\s+to|contact|reach\s+out\s+to|email)\s+[A-Z][a-z]+.*$
QUESTIONS_LINE ==
    {for \o Lit(Word.question) \o <<Opt(CaseSet("s")), Opt({","})>> \o Spaces \o please
         \o verb \o Spaces \o NameAndRest :
        for \in Optional(Lit(Word.for) \o Spaces),
        please \in Optional(Lit(Word.please) \o Spaces),
        verb \in {Lit(Word.feel) \o Spaces \o Lit(Word.free) \o Spaces \o Lit(Word.to),
                  Lit(Word.contact),
                  Lit(Word.reach) \o Spaces \o Lit(Word.out) \o Spaces \o Lit(Word.to),
                  Lit(Word.email)}}

\* ^\s*(?:contact|recruiter|hiring\s+manager|point\s+of\s+contact)\s*:\s*[A-Z].*$
CONTACT_HEADER_LINE ==
    {MaybeSpaces \o head \o MaybeSpaces \o <<One({":"})>> \o MaybeSpaces
         \o <<One(Letters), Star(AnyChar), EndOfText>> :
        head \in {Lit(Word.contact),
                  Lit(Word.recruiter),
                  Lit(Word.hiring) \o Spaces \o Lit(Word.manager),
                  Lit(Word.point) \o Spaces \o Lit(Word.of) \o Spaces \o Lit(Word.contact)}}

\* ^(?:please\s+)?(?:apply|send\s+(?:your\s+)?(?:resume|cv|application))\s+to\s+
\*  [A-Z][a-z]+.*$
APPLY_TO_LINE ==
    {please \o verb \o Spaces \o Lit(Word.to) \o Spaces \o NameAndRest :
        please \in Optional(Lit(Word.please) \o Spaces),
        verb \in {Lit(Word.apply)}
                 \cup {Lit(Word.send) \o Spaces \o your \o what :
                          your \in Optional(Lit(Word.your) \o Spaces),
                          what \in {Lit(Word.resume), Lit(Word.cv), Lit(Word.application)}}}

CONTACT_LINE_PATTERNS == <<QUESTIONS_LINE, CONTACT_HEADER_LINE, APPLY_TO_LINE>>

\* lines 44-47: any(re.match(pattern, line) for pattern in CONTACT_LINE_PATTERNS)
is_contact_line(line) ==
    \E k \in 1..Len(CONTACT_LINE_PATTERNS) :
        \E alt \in CONTACT_LINE_PATTERNS[k] : match(<<alt>>, line)

_remove_contact_lines(text) ==
    join(SelectSeq(splitlines(text), LAMBDA line : ~is_contact_line(line)))

\* lines 71-72: the patterns from the k-th on, one after the other
RECURSIVE redact_from(_, _)
redact_from(filtered, k) ==
    IF k > Len(PII_PATTERNS) THEN filtered
    ELSE redact_from(sub(PII_PATTERNS[k].pattern, PII_PATTERNS[k].replacement, filtered), k + 1)

\* lines 65-74: contact lines removed, then the patterns applied
redact(text) == redact_from(_remove_contact_lines(text), 1)

\* redact of the descriptions the sample pages and answers carry.  A constant
\* is evaluated once, so extract_job's states share these values.
SampleDescriptions == {D_Clean, D_Contact, D_Leak}
REDACTED_SAMPLES == {<<d, redact(d)>> : d \in SampleDescriptions}

filter_pii(text) ==
    IF ~Truthy(text) THEN text
    ELSE IF text[1] \in SampleDescriptions
    THEN Some((CHOOSE e \in REDACTED_SAMPLES : e[1] = text[1])[2])
    ELSE Some(redact(text[1]))

\* variant: a null description replaced by the empty str
filter_pii_from_result_blank(r) ==
    ExtractionResult(r.title, r.company, r.location, r.salary,
                     IF r.description = None THEN Some(<<>>) ELSE filter_pii(r.description),
                     r.source)

filter_pii_from_result(r) ==
    ExtractionResult(r.title, r.company, r.location, r.salary,
                     filter_pii(r.description), r.source)

-----------------------------------------------------------------------------
(* llm_extractor.py.  The answer of the text-generation call is a failure  *)
(* (transport error, text that is no JSON, JSON that is no object; each    *)
(* ends in RuntimeError) or the object json.loads returned.                *)

\* a JSON value that is true in a condition and is no str, as in {"title": 5}
NOT_A_STR == <<"<int 5>">>

LlmData(t, c, l, s, d) == [title |-> t, company |-> c, location |-> l, salary |-> s, description |-> d]

LlmAnswers == {
    [kind |-> "RuntimeError", data |-> LlmData(None, None, None, None, None)],
    [kind |-> "object", data |-> LlmData(Some(S_Eng), Some(S_Acme), Some(<<"Remote">>), None, Some(D_Contact))],
    [kind |-> "object", data |-> LlmData(Some(S_Padded), Some(S_Acme), None, None, Some(D_Clean))],
    [kind |-> "object", data |-> LlmData(Some(<<>>), Some(S_Acme), None, None, None)],
    [kind |-> "object", data |-> LlmData(Some(S_Blank), Some(S_Acme), None, None, Some(D_Clean))],
    [kind |-> "object", data |-> LlmData(Some(S_Eng), None, None, None, Some(D_Clean))],
    [kind |-> "object", data |-> LlmData(Some(NOT_A_STR), Some(S_Acme), None, None, None)] }

\* x or default
OrDefault(o, default) == IF Truthy(o) THEN o[1] ELSE default

extract_with_llm(data) ==
    ExtractionResult(OrDefault(data.title, DEFAULT_TITLE), OrDefault(data.company, DEFAULT_COMPANY),
                     data.location, data.salary, data.description, "llm")

\* pipeline.py: _extract_with_llm
_extract_with_llm(answer) ==
    IF answer.kind = "object" THEN Some(extract_with_llm(answer.data)) ELSE None

\* is_complete() raises AttributeError when it reaches .strip() of a value that is no str
is_complete_raises(r) ==
    /\ r.title # DEFAULT_TITLE
    /\ r.company # DEFAULT_COMPANY
    /\ r.title = NOT_A_STR

-----------------------------------------------------------------------------
(* quality_check.py.  The answer is a failure inside validate_extraction,  *)
(* a failed import in _validate_with_llm, or the object json.loads         *)
(* returned, whose keys may be missing.                                    *)

ReportedConfidences == {-20, 45, 90, 150}

ValidatorAnswers ==
    {[kind |-> "Exception", is_valid |-> None, confidence |-> None],
     [kind |-> "ImportError", is_valid |-> None, confidence |-> None],
     [kind |-> "object", is_valid |-> None, confidence |-> Some(90)],
     [kind |-> "object", is_valid |-> Some(TRUE), confidence |-> None]}
    \cup {[kind |-> "object", is_valid |-> Some(b), confidence |-> Some(v)] :
              b \in BOOLEAN, v \in ReportedConfidences}

QualityResult(valid, conf) == [is_valid |-> valid, confidence |-> conf]

FAIL_OPEN_CONFIDENCE == 50

validate_extraction(answer) ==
    IF answer.kind # "object" THEN QualityResult(TRUE, FAIL_OPEN_CONFIDENCE)
    ELSE QualityResult(IF answer.is_valid = None THEN FALSE ELSE answer.is_valid[1],
                       IF answer.confidence = None THEN 0 ELSE answer.confidence[1])

\* pipeline.py: _validate_with_llm
_validate_with_llm(answer) ==
    IF answer.kind = "ImportError" THEN QualityResult(TRUE, FAIL_OPEN_CONFIDENCE)
    ELSE validate_extraction(answer)

-----------------------------------------------------------------------------
(* pipeline.py: extract_job, its decisions *)

Flags == [use_playwright : BOOLEAN, use_llm_fallback : BOOLEAN, use_llm_validation : BOOLEAN,
          apply_pii_filter : BOOLEAN, check_robots : BOOLEAN]

ExtractionMetrics(fm, em, vr, c, n) ==
    [fetch_method |-> fm, extraction_method |-> em, validation_run |-> vr,
     confidence |-> c, fallbacks_used |-> n]

InitialMetrics == ExtractionMetrics("requests", "bs4", FALSE, 0, 0)

CONF_BS4_COMPLETE == 80
CONF_BS4_INCOMPLETE == 30
CONF_PLAYWRIGHT_COMPLETE == 75
CONF_PLAYWRIGHT_INCOMPLETE == 40
CONF_LLM == 70
INVALID_CAP == 40

\* "if html:"
HtmlTruthy(h) == h # None /\ h[1].nonempty

\* variant: 0.8 assigned whether or not the result is complete
bs4_confidence_always_high(r) == CONF_BS4_COMPLETE

\* lines 179-182
bs4_confidence(r) == IF is_complete(r) THEN CONF_BS4_COMPLETE ELSE CONF_BS4_INCOMPLETE

\* variant: the values of lines 180 and 182 reused after the Playwright fetch
playwright_confidence_as_bs4(r) == bs4_confidence(r)

\* lines 196-199
playwright_confidence(r) ==
    IF is_complete(r) THEN CONF_PLAYWRIGHT_COMPLETE ELSE CONF_PLAYWRIGHT_INCOMPLETE

\* variant: the quality test of line 185 left out
should_try_playwright_always(f, h, r) == f.use_playwright

\* line 185
should_try_playwright(f, h, r) ==
    f.use_playwright /\ (~HtmlTruthy(h) \/ r = None \/ ~is_complete(r[1]))

\* variant: line 202 without "and html"
should_try_llm_without_html(f, h, r) ==
    f.use_llm_fallback /\ (r = None \/ ~is_complete(r[1]))

\* line 202
should_try_llm(f, h, r) ==
    f.use_llm_fallback /\ HtmlTruthy(h) /\ (r = None \/ ~is_complete(r[1]))

\* variant: line 213 without "and result.is_complete()"
should_validate_any_result(f, r) == f.use_llm_validation /\ r # None

\* line 213
should_validate(f, r) == f.use_llm_validation /\ r # None /\ is_complete(r[1])

\* variant: the validator's figures assigned instead of max / min
validated_confidence_assigned(c, q) ==
    IF q.is_valid THEN q.confidence ELSE INVALID_CAP

\* lines 217-221
validated_confidence(c, q) ==
    IF q.is_valid THEN Max(c, q.confidence) ELSE Min(c, INVALID_CAP)

\* line 234
source_tag(m) == m.fetch_method \o "+" \o m.extraction_method

\* variant: the increment left out
escalated_uncounted(m) == m

\* line 187 and line 204
escalated(m) == [m EXCEPT !.fallbacks_used = @ + 1]

\* lines 179-182
parsed_primary(m, r) == [m EXCEPT !.confidence = bs4_confidence(r)]

\* variant: line 191 left out
parsed_playwright_method_kept(m, r) == [m EXCEPT !.confidence = playwright_confidence(r)]

\* lines 191-199
parsed_playwright(m, r) ==
    [m EXCEPT !.fetch_method = "playwright", !.confidence = playwright_confidence(r)]

\* lines 209-210
accepted_llm(m) == [m EXCEPT !.extraction_method = "llm", !.confidence = CONF_LLM]

\* lines 215-221
validated(m, q) ==
    [m EXCEPT !.validation_run = TRUE, !.confidence = validated_confidence(m.confidence, q)]

\* variant: a result the validator calls invalid is dropped
validated_result_dropping_invalid(r, q) == IF q.is_valid THEN r ELSE None

\* lines 212-221: step 5 assigns nothing to result
validated_result(r, q) == r

\* lines 227-235
tagged(r, m) == [r EXCEPT !.source = source_tag(m)]

-----------------------------------------------------------------------------
(* The fetchers.  A fetch answers with a text or fails; both wrappers turn *)
(* every failure into None.                                                *)

FetchAnswers ==
    {[kind |-> k, text |-> EMPTY_HTML] : k \in {"HTTPError", "Timeout", "ConnectionError"}}
    \cup {[kind |-> "text", text |-> d] : d \in Documents}

_fetch_with_requests(answer) == IF answer.kind = "text" THEN Some(answer.text) ELSE None

_fetch_with_playwright(answer) == IF answer.kind = "text" THEN Some(answer.text) ELSE None

\* extract_job calls extract_with_bs4(html, url), while bs4_extractor.py declares
\* extract_with_bs4(html): with that definition every call raises TypeError.
\* domain_cache.py and geo_extractor.py, which no module of the tree imports,
\* are what a definition taking (html, url) would use.  bs4_params is fixed
\* when the process starts: the parameters as declared, or as the caller
\* presupposes.

\* positional arguments of the calls extract_with_bs4(html, url), lines 175 and 193
BS4_ARGS_PASSED == 2
\* positional parameters of def extract_with_bs4(html), bs4_extractor.py line 278
BS4_PARAMS_DECLARED == 1

\* the call raises TypeError unless the linked definition takes both arguments
bs4_call_raises == bs4_params # BS4_ARGS_PASSED

-----------------------------------------------------------------------------
(* State machine *)

NoCalls == [requests |-> 0, playwright |-> 0, llm |-> 0, validate |-> 0, pii |-> 0]

\* "none", "complete" or "incomplete" for the parse of each fetcher's HTML
NoParses == [requests |-> "none", playwright |-> "none"]

\* the essential fields of r, read off the record
Essential(r) ==
    /\ r.title # DEFAULT_TITLE
    /\ r.company # DEFAULT_COMPANY
    /\ \E i \in 1..Len(r.title) : r.title[i] \notin Whitespace
    /\ \E i \in 1..Len(r.company) : r.company[i] \notin Whitespace

Outcome(r) == IF Essential(r) THEN "complete" ELSE "incomplete"

Init ==
    /\ pc = "ValidateURL"
    /\ url \in Urls
    /\ flags \in Flags
    /\ html = None
    /\ result = None
    /\ metrics = InitialMetrics
    /\ exc = ""
    /\ robots_cache = <<>>
    /\ bs4_params \in {BS4_PARAMS_DECLARED, BS4_ARGS_PASSED}
    /\ ncalls = 1
    /\ calls = NoCalls
    /\ html_via = "none"
    /\ fields_via = None
    /\ raw = None
    /\ prior = 0
    /\ report = None
    /\ parses = NoParses
    /\ op = "extract_job"
    /\ arg = None
    /\ out = <<>>
    /\ NoThreads

\* a further invocation of extract_job in the same process
Call ==
    /\ pc \in {"done", "raised"}
    /\ ncalls < MaxCalls
    /\ \E u \in Urls, f \in Flags : url' = u /\ flags' = f
    /\ pc' = "ValidateURL"
    /\ html' = None
    /\ result' = None
    /\ metrics' = InitialMetrics
    /\ exc' = ""
    /\ ncalls' = ncalls + 1
    /\ calls' = NoCalls
    /\ html_via' = "none"
    /\ fields_via' = None
    /\ raw' = None
    /\ prior' = 0
    /\ report' = None
    /\ parses' = NoParses
    /\ UNCHANGED <<robots_cache, bs4_params>>
    /\ UNCHANGED <<fn_vars, shared_vars>>

\* lines 139-147
ValidateURL ==
    /\ pc = "ValidateURL"
    /\ pc' = IF _is_valid_url(url) THEN "CheckRobots" ELSE "done"
    /\ UNCHANGED <<url, flags, html, result, metrics, exc, robots_cache, bs4_params,
                   ncalls, calls, html_via, fields_via, raw, prior, report, parses>>
    /\ UNCHANGED <<fn_vars, shared_vars>>

\* lines 149-166, with robots_checker.is_allowed and its cache
\* variant: is_allowed without the lru_cache of line 21, robots.txt fetched
\* again on every call
CheckRobots_uncached ==
    /\ pc = "CheckRobots"
    /\ IF flags.check_robots
       THEN \E answer \in RobotsAnswers :
                LET key == get_robots_url(url)
                    rp == _fetch_robots_txt(answer)
                IN  /\ robots_cache' = [k \in DOMAIN robots_cache \cup {key} |->
                                            IF k = key THEN rp ELSE robots_cache[k]]
                    /\ pc' = IF is_allowed(rp, url) THEN "FetchPrimary" ELSE "done"
       ELSE /\ pc' = "FetchPrimary"
            /\ UNCHANGED robots_cache
    /\ UNCHANGED <<url, flags, html, result, metrics, exc, bs4_params,
                   ncalls, calls, html_via, fields_via, raw, prior, report, parses>>
    /\ UNCHANGED <<fn_vars, shared_vars>>

CheckRobots ==
    /\ pc = "CheckRobots"
    /\ IF flags.check_robots
       THEN \E answer \in RobotsAnswers :
                LET key == get_robots_url(url)
                    hit == key \in DOMAIN robots_cache
                    rp == IF hit THEN robots_cache[key] ELSE _fetch_robots_txt(answer)
                IN  /\ robots_cache' = IF hit THEN robots_cache
                                       ELSE [k \in DOMAIN robots_cache \cup {key} |->
                                                IF k = key THEN rp ELSE robots_cache[k]]
                    /\ pc' = IF is_allowed(rp, url) THEN "FetchPrimary" ELSE "done"
       ELSE /\ pc' = "FetchPrimary"
            /\ UNCHANGED robots_cache
    /\ UNCHANGED <<url, flags, html, result, metrics, exc, bs4_params,
                   ncalls, calls, html_via, fields_via, raw, prior, report, parses>>
    /\ UNCHANGED <<fn_vars, shared_vars>>

\* variant: a primary fetch that brought nothing is made once more
FetchPrimary_retried ==
    /\ pc = "FetchPrimary"
    /\ \E answer \in FetchAnswers :
           /\ html' = _fetch_with_requests(answer)
           /\ html_via' = IF html' = None THEN "none" ELSE "requests"
           /\ pc' = IF html' = None /\ calls.requests = 0 THEN "FetchPrimary" ELSE "ParsePrimary"
    /\ calls' = [calls EXCEPT !.requests = @ + 1]
    /\ UNCHANGED <<url, flags, result, metrics, exc, robots_cache, bs4_params,
                   ncalls, fields_via, raw, prior, report, parses>>
    /\ UNCHANGED <<fn_vars, shared_vars>>

\* lines 168-170
FetchPrimary ==
    /\ pc = "FetchPrimary"
    /\ \E answer \in FetchAnswers :
           /\ html' = _fetch_with_requests(answer)
           /\ html_via' = IF html' = None THEN "none" ELSE "requests"
    /\ calls' = [calls EXCEPT !.requests = @ + 1]
    /\ pc' = "ParsePrimary"
    /\ UNCHANGED <<url, flags, result, metrics, exc, robots_cache, bs4_params,
                   ncalls, fields_via, raw, prior, report, parses>>
    /\ UNCHANGED <<fn_vars, shared_vars>>

\* lines 172-182
ParsePrimary ==
    /\ pc = "ParsePrimary"
    /\ IF HtmlTruthy(html)
       THEN IF bs4_call_raises
            THEN /\ pc' = "raised"
                 /\ exc' = "TypeError"
                 /\ UNCHANGED <<result, metrics, fields_via, parses>>
            ELSE /\ result' = Some(extract_with_bs4(html[1]))
                 /\ metrics' = parsed_primary(metrics, result'[1])
                 /\ fields_via' = Some(<<"requests", "bs4">>)
                 /\ parses' = [parses EXCEPT !.requests = Outcome(result'[1])]
                 /\ pc' = "TryPlaywright"
                 /\ UNCHANGED exc
       ELSE /\ pc' = "TryPlaywright"
            /\ UNCHANGED <<result, metrics, fields_via, exc, parses>>
    /\ UNCHANGED <<url, flags, html, robots_cache, bs4_params,
                   ncalls, calls, html_via, raw, prior, report>>
    /\ UNCHANGED <<fn_vars, shared_vars>>

\* lines 184-199
TryPlaywright ==
    /\ pc = "TryPlaywright"
    /\ IF should_try_playwright(flags, html, result)
       THEN /\ calls' = [calls EXCEPT !.playwright = @ + 1]
            /\ \E answer \in FetchAnswers :
                 LET playwright_html == _fetch_with_playwright(answer)
                 IN  IF HtmlTruthy(playwright_html)
                     THEN /\ html' = playwright_html
                          /\ html_via' = "playwright"
                          /\ IF bs4_call_raises
                             THEN /\ pc' = "raised"
                                  /\ exc' = "TypeError"
                                  /\ metrics' = [escalated(metrics) EXCEPT !.fetch_method = "playwright"]
                                  /\ UNCHANGED <<result, fields_via, parses>>
                             ELSE /\ result' = Some(extract_with_bs4(html'[1]))
                                  /\ metrics' = parsed_playwright(escalated(metrics), result'[1])
                                  /\ fields_via' = Some(<<"playwright", "bs4">>)
                                  /\ parses' = [parses EXCEPT !.playwright = Outcome(result'[1])]
                                  /\ pc' = "TryLLM"
                                  /\ UNCHANGED exc
                     ELSE /\ metrics' = escalated(metrics)
                          /\ pc' = "TryLLM"
                          /\ UNCHANGED <<html, html_via, result, fields_via, exc, parses>>
       ELSE /\ pc' = "TryLLM"
            /\ UNCHANGED <<html, html_via, result, metrics, fields_via, exc, calls, parses>>
    /\ UNCHANGED <<url, flags, robots_cache, bs4_params, ncalls, raw, prior, report>>
    /\ UNCHANGED <<fn_vars, shared_vars>>

\* variant: line 208 before the test of line 207, so that an incomplete or
\* missing LLM result replaces the result
TryLLM_overwriting ==
    /\ pc = "TryLLM"
    /\ IF should_try_llm(flags, html, result)
       THEN /\ calls' = [calls EXCEPT !.llm = @ + 1]
            /\ \E answer \in LlmAnswers :
                 LET llm_result == _extract_with_llm(answer)
                 IN  IF llm_result # None /\ is_complete_raises(llm_result[1])
                     THEN /\ pc' = "raised"
                          /\ exc' = "AttributeError"
                          /\ metrics' = escalated(metrics)
                          /\ UNCHANGED <<result, fields_via>>
                     ELSE IF llm_result # None /\ is_complete(llm_result[1])
                     THEN /\ result' = llm_result
                          /\ metrics' = accepted_llm(escalated(metrics))
                          /\ fields_via' = Some(<<html_via, "llm">>)
                          /\ pc' = "Validate"
                          /\ UNCHANGED exc
                     ELSE /\ metrics' = escalated(metrics)
                          /\ result' = llm_result
                          /\ pc' = "Validate"
                          /\ UNCHANGED <<fields_via, exc>>
       ELSE /\ pc' = "Validate"
            /\ UNCHANGED <<result, metrics, fields_via, exc, calls>>
    /\ UNCHANGED <<url, flags, html, robots_cache, bs4_params, ncalls, html_via,
                   raw, prior, report, parses>>
    /\ UNCHANGED <<fn_vars, shared_vars>>

\* lines 201-210
TryLLM ==
    /\ pc = "TryLLM"
    /\ IF should_try_llm(flags, html, result)
       THEN /\ calls' = [calls EXCEPT !.llm = @ + 1]
            /\ \E answer \in LlmAnswers :
                 LET llm_result == _extract_with_llm(answer)
                 IN  IF llm_result # None /\ is_complete_raises(llm_result[1])
                     THEN /\ pc' = "raised"
                          /\ exc' = "AttributeError"
                          /\ metrics' = escalated(metrics)
                          /\ UNCHANGED <<result, fields_via>>
                     ELSE IF llm_result # None /\ is_complete(llm_result[1])
                     THEN /\ result' = llm_result
                          /\ metrics' = accepted_llm(escalated(metrics))
                          /\ fields_via' = Some(<<html_via, "llm">>)
                          /\ pc' = "Validate"
                          /\ UNCHANGED exc
                     ELSE /\ metrics' = escalated(metrics)
                          /\ pc' = "Validate"
                          /\ UNCHANGED <<result, fields_via, exc>>
       ELSE /\ pc' = "Validate"
            /\ UNCHANGED <<result, metrics, fields_via, exc, calls>>
    /\ UNCHANGED <<url, flags, html, robots_cache, bs4_params, ncalls, html_via,
                   raw, prior, report, parses>>
    /\ UNCHANGED <<fn_vars, shared_vars>>

\* lines 212-221
Validate ==
    /\ pc = "Validate"
    /\ prior' = metrics.confidence
    /\ raw' = result
    /\ IF should_validate(flags, result)
       THEN /\ calls' = [calls EXCEPT !.validate = @ + 1]
            /\ \E answer \in ValidatorAnswers :
                 /\ report' = Some(answer)
                 /\ metrics' = validated(metrics, _validate_with_llm(answer))
                 /\ result' = validated_result(result, _validate_with_llm(answer))
       ELSE UNCHANGED <<calls, report, metrics, result>>
    /\ pc' = "Filter"
    /\ UNCHANGED <<url, flags, html, exc, robots_cache, bs4_params, ncalls,
                   html_via, fields_via, parses>>
    /\ UNCHANGED <<fn_vars, shared_vars>>

\* lines 223-237
FilterAndReturn ==
    /\ pc = "Filter"
    /\ LET filtered == IF flags.apply_pii_filter /\ result # None
                       THEN Some(filter_pii_from_result(result[1])) ELSE result
       IN  result' = IF filtered # None THEN Some(tagged(filtered[1], metrics)) ELSE None
    /\ calls' = IF flags.apply_pii_filter /\ result # None
                THEN [calls EXCEPT !.pii = @ + 1] ELSE calls
    /\ pc' = "done"
    /\ UNCHANGED <<url, flags, html, metrics, exc, robots_cache, bs4_params, ncalls,
                   html_via, fields_via, raw, prior, report, parses>>
    /\ UNCHANGED <<fn_vars, shared_vars>>

Next ==
    \/ Call
    \/ ValidateURL
    \/ CheckRobots
    \/ FetchPrimary
    \/ ParsePrimary
    \/ TryPlaywright
    \/ TryLLM
    \/ Validate
    \/ FilterAndReturn

Spec == Init /\ [][Next]_vars

-----------------------------------------------------------------------------
(* extract_job called twice with one URL and one set of flags, in a world  *)
(* whose two fetchers answer every call the same way.  arg holds what each *)
(* fetcher answers; out holds what the first call came to.                 *)

\* the URL of the two calls
RepeatUrls == {Url("https", "example.com", Some("example.com"), "/jobs/1")}

\* what requests.get (line 61) and fetch_with_playwright (line 77) answer
Worlds == [requests : FetchAnswers, playwright : FetchAnswers]

\* what a finished call came to: the exception of line 175, 193 or 207, or
\* the value returned with its completeness and metrics.confidence; and
\* whether the LLM extractor (line 204) or the validator (line 215) was called
Came ==
    [raised |-> pc = "raised",
     returned |-> result # None,
     complete |-> result # None /\ Essential(result[1]),
     confidence |-> metrics.confidence,
     interpreted |-> calls.llm + calls.validate > 0]

RepeatInit ==
    /\ pc = "ValidateURL"
    /\ url \in RepeatUrls
    /\ flags \in Flags
    /\ html = None
    /\ result = None
    /\ metrics = InitialMetrics
    /\ exc = ""
    /\ robots_cache = <<>>
    /\ bs4_params \in {BS4_PARAMS_DECLARED, BS4_ARGS_PASSED}
    /\ ncalls = 1
    /\ calls = NoCalls
    /\ html_via = "none"
    /\ fields_via = None
    /\ raw = None
    /\ prior = 0
    /\ report = None
    /\ parses = NoParses
    /\ op = "extract_job_twice"
    /\ arg \in Worlds
    /\ out = <<>>
    /\ NoThreads

\* the second call, with the URL and the flags of the first
CallAgain ==
    /\ pc \in {"done", "raised"}
    /\ out = <<>>
    /\ out' = <<Came>>
    /\ pc' = "ValidateURL" /\ html' = None /\ result' = None /\ metrics' = InitialMetrics
    /\ exc' = "" /\ ncalls' = ncalls + 1 /\ calls' = NoCalls /\ html_via' = "none"
    /\ fields_via' = None /\ raw' = None /\ prior' = 0 /\ report' = None /\ parses' = NoParses
    /\ UNCHANGED <<url, flags, robots_cache, bs4_params>>
    /\ UNCHANGED <<op, arg, shared_vars>>

\* line 61 answering as the world does
FetchPrimaryOfWorld ==
    /\ FetchPrimary
    /\ html' = _fetch_with_requests(arg.requests)

\* line 77 answering as the world does
TryPlaywrightOfWorld ==
    /\ TryPlaywright
    /\ \/ calls' = calls
       \/ /\ HtmlTruthy(_fetch_with_playwright(arg.playwright))
          /\ html' = _fetch_with_playwright(arg.playwright)
          /\ html_via' = "playwright"
       \/ /\ ~HtmlTruthy(_fetch_with_playwright(arg.playwright))
          /\ html_via' = html_via

RepeatNext ==
    \/ CallAgain
    \/ ValidateURL
    \/ CheckRobots
    \/ FetchPrimaryOfWorld
    \/ ParsePrimary
    \/ TryPlaywrightOfWorld
    \/ TryLLM
    \/ Validate
    \/ FilterAndReturn

RepeatSpec == RepeatInit /\ [][RepeatNext]_vars

-----------------------------------------------------------------------------
(* The component functions on arguments of their own: is_complete,         *)
(* filter_pii_from_result, filter_pii applied again to its own value, and  *)
(* the description as the extractors produce it and line 225 filters it.   *)

\* field values and pieces of text the functions are applied to
Sample ==
    [tabs |-> <<"\t", "\n">>,
     padded_sentinel |-> <<" ">> \o DEFAULT_TITLE,
     mail |-> <<"h","r","@","a","c","m","e",".","c","o","m">>,
     handle |-> <<"@","b","o","b","b","y">>,
     phone |-> <<"5","5","5","-","1","2","3","-","4","5","6","7">>,
     linkedin |-> <<"l","i","n","k","e","d","i","n",".","c","o","m","/","i","n","/","b","o","b">>,
     email |-> <<"h","i","r","i","n","g","@","e","x","a","m","p","l","e",".","c","o","m">>,
     uk_phone |-> <<"+","4","4"," ","2","0"," ","7","9","4","6"," ","0","9","5","8">>,
     contact_line |-> <<"C","o","n","t","a","c","t",":"," ","J","a","n","e">>,
     space |-> <<" ">>,
     newline |-> <<"\n">>]

\* populated, padded, sentinel, empty and whitespace-only values of a field
FieldSamples ==
    {S_Eng, S_Acme, S_Padded, Sample.padded_sentinel, DEFAULT_TITLE, DEFAULT_COMPANY, <<>>, S_Blank, Sample.tabs}

CompletenessInputs ==
    {ExtractionResult(t, c, l, sal, d, src) :
        t \in FieldSamples, c \in FieldSamples,
        l \in {None, Some(<<"Remote">>)}, sal \in {None},
        d \in {None, Some(D_Contact)}, src \in {"bs4", "llm"}}

RedactionInputs ==
    {ExtractionResult(t, c, l, sal, d, src) :
        t \in {S_Eng, Sample.mail}, c \in {S_Acme, Sample.handle},
        l \in {None, Some(Sample.email)}, sal \in {None, Some(Sample.phone)},
        d \in {None, Some(<<>>), Some(D_Clean), Some(D_Contact), Some(D_Leak)},
        src \in {"bs4", "llm"}}


\* what a text is put together from: contact details, a contact line, the
\* substitution tokens, and plain text
PlainFragments == {D_Clean, Sample.space, Sample.newline}
Fragments ==
    {Sample.phone, Sample.linkedin, Sample.email, Sample.handle, Sample.uk_phone, Sample.contact_line,
     T_EMAIL, T_PHONE, T_LINKEDIN, T_HANDLE} \cup PlainFragments

RECURSIVE Concat(_)
Concat(parts) == IF parts = <<>> THEN <<>> ELSE Head(parts) \o Concat(Tail(parts))

\* the texts of at most n fragments from F
TextsOf(F, n) == {Concat(parts) : parts \in UNION {[1..k -> F] : k \in 0..n}}

TextInputs == {None} \cup {Some(t) : t \in TextsOf(Fragments, MaxFragments)}

\* n characters without a line break, a space or a contact detail
Filler(n) == [i \in 1..n |-> "*"]

\* descriptions up to, at and beyond the limit of line 232
LongTexts ==
    {Filler(MIN_MEANINGFUL + 1), Filler(MAX_DESCRIPTION), Filler(MAX_DESCRIPTION + 1),
     Sample.handle \o Sample.space \o Filler(MAX_DESCRIPTION)}

\* an argument of the description step: the extractor, what it reads,
\* and the apply_pii_filter flag
DescriptionInputs ==
    {[extractor |-> "bs4", page |-> pg, data |-> LlmData(None, None, None, None, None),
      apply_pii_filter |-> f] :
        pg \in {DescriptionPage(Some(t), <<>>, None) : t \in LongTexts \cup {D_Contact, <<>>}}
               \cup {DescriptionPage(None, <<None, Some(D_Clean), Some(t)>>, None) : t \in LongTexts}
               \cup {DescriptionPage(None, <<Some(D_Clean)>>, Some(t)) : t \in LongTexts \cup {D_Clean}},
        f \in BOOLEAN}
    \cup
    {[extractor |-> "llm", page |-> DescriptionPage(None, <<>>, None),
      data |-> LlmData(Some(S_Eng), Some(S_Acme), None, None, d), apply_pii_filter |-> f] :
        d \in {None} \cup {Some(t) : t \in LongTexts \cup {D_Contact}},
        f \in BOOLEAN}

\* pipeline.py lines 39-53 on the url as a string.  urlparse is the standard
\* library's: leading blanks are dropped, the scheme is what precedes the first
\* ":" when it is made of scheme characters, the netloc is what follows "//" up
\* to the next "/", "?" or "#", and the hostname is the netloc without userinfo,
\* port and brackets, in lower case, or None when that is empty.
ToLower(c) == IF \E i \in 1..Len(Upper) : Upper[i] = c
              THEN Lower[CHOOSE i \in 1..Len(Upper) : Upper[i] = c] ELSE c

\* the str of a sequence of characters
RECURSIVE Str(_)
Str(s) == IF s = <<>> THEN "" ELSE Head(s) \o Str(Tail(s))

\* the first place at or after from where s has a character of C; 0 if none
IndexOf(s, C, from) ==
    IF \E i \in from..Len(s) : s[i] \in C
    THEN CHOOSE i \in from..Len(s) : s[i] \in C /\ \A j \in from..(i - 1) : s[j] \notin C
    ELSE 0

\* the address literals ipaddress.ip_address accepts as IPv6, among those used
BracketedHosts == {<<":", ":", "1">>}

\* where the scheme of s ends (its ":"), 0 when s has no scheme
SchemeEnd(s) ==
    LET colon == IndexOf(s, {":"}, 1)
    IN  IF /\ colon > 1
           /\ s[1] \in Letters
           /\ \A i \in 1..(colon - 1) : s[i] \in Letters \cup Digits \cup {"+", "-", "."}
        THEN colon ELSE 0

\* where the netloc of rest ends: before the first "/", "?" or "#" after "//"
NetlocEnd(rest) ==
    IF IndexOf(rest, {"/", "?", "#"}, 3) = 0 THEN Len(rest)
    ELSE IndexOf(rest, {"/", "?", "#"}, 3) - 1

HasNetloc(rest) == Len(rest) >= 2 /\ rest[1] = "/" /\ rest[2] = "/"

NetlocOf(rest) == IF HasNetloc(rest) THEN SubSeq(rest, 3, NetlocEnd(rest)) ELSE <<>>

PathOf(rest) ==
    LET tail == IF HasNetloc(rest) THEN SubSeq(rest, NetlocEnd(rest) + 1, Len(rest)) ELSE rest
        cut  == IndexOf(tail, {"?", "#"}, 1)
    IN  IF cut = 0 THEN tail ELSE SubSeq(tail, 1, cut - 1)

\* the netloc after its last "@"
HostInfo(netloc) ==
    LET ats == {i \in 1..Len(netloc) : netloc[i] = "@"}
    IN  IF ats = {} THEN netloc
        ELSE SubSeq(netloc, (CHOOSE i \in ats : \A j \in ats : j <= i) + 1, Len(netloc))

\* the host of info: what the brackets hold, or what precedes the first ":"
HostOf(info) ==
    LET open   == IndexOf(info, {"["}, 1)
        close  == IndexOf(info, {"]"}, open + 1)
        colon2 == IndexOf(info, {":"}, 1)
    IN  IF open > 0
        THEN SubSeq(info, open + 1, (IF close = 0 THEN Len(info) + 1 ELSE close) - 1)
        ELSE IF colon2 = 0 THEN info ELSE SubSeq(info, 1, colon2 - 1)

\* urlsplit raises ValueError: one bracket without the other, or brackets
\* around what is no address
BracketsRaise(netloc) ==
    LET nopen  == IndexOf(netloc, {"["}, 1)
        nclose == IndexOf(netloc, {"]"}, 1)
    IN  \/ (nopen > 0) # (nclose > 0)
        \/ /\ nopen > 0
           /\ nclose > 0
           /\ SubSeq(netloc, nopen + 1, IndexOf(netloc, {"]"}, nopen + 1) - 1) \notin BracketedHosts

urlparse_of(s, rest) ==
    [raises   |-> BracketsRaise(NetlocOf(rest)),
     scheme   |-> Str([i \in 1..(SchemeEnd(s) - 1) |-> ToLower(s[i])]),
     netloc   |-> Str(NetlocOf(rest)),
     hostname |-> IF HostOf(HostInfo(NetlocOf(rest))) = <<>> THEN None
                  ELSE Some(Str([i \in 1..Len(HostOf(HostInfo(NetlocOf(rest)))) |->
                                    ToLower(HostOf(HostInfo(NetlocOf(rest)))[i])])),
     path     |-> Str(PathOf(rest))]

url_cleaned(text) == SelectSeq(LStrip(text), LAMBDA c : c \notin {"\t", "\n", "\r"})

urlparse(text) ==
    urlparse_of(url_cleaned(text),
                SubSeq(url_cleaned(text), SchemeEnd(url_cleaned(text)) + 1, Len(url_cleaned(text))))

\* _is_valid_url(url), the try and the except of lines 41 and 52 included
_is_valid_url_of_str(text) ==
    LET parsed == urlparse(text)
    IN  IF parsed.raises THEN FALSE
        ELSE _is_valid_url(Url(parsed.scheme, parsed.netloc, parsed.hostname, parsed.path))

\* url strings: plain, with port, userinfo, upper case, brackets, no host, no
\* scheme, a foreign scheme, the blocked hosts, and unbalanced brackets
UrlStrings == {
    <<"h","t","t","p","s",":","/","/","e","x","a","m","p","l","e",".","c","o","m","/","j","o","b","s","/","1">>,
    <<"h","t","t","p",":","/","/","E","x","a","m","p","l","e",".","c","o","m">>,
    <<"h","t","t","p",":","/","/","j","o","b","s",".","e","x","a","m","p","l","e",".","o","r","g",":","8","0","8","0","/","j","o","b","s","/","1","?","i","d","=","2","#","t","o","p">>,
    <<"h","t","t","p",":","/","/",":","8","0","/","j","o","b","s">>,
    <<"h","t","t","p",":","/","/","@","/","x">>,
    <<"h","t","t","p","s",":","/","/","[",":",":","1">>,
    <<"h","t","t","p",":","/","/","[",":",":","1","]",":","8","0","0","0","/","j","o","b">>,
    <<"H","T","T","P",":","/","/","L","O","C","A","L","H","O","S","T","/","x">>,
    <<"h","t","t","p",":","/","/","u","s","e","r","@","l","o","c","a","l","h","o","s","t","/">>,
    <<"/","/","e","x","a","m","p","l","e",".","c","o","m","/","x">>,
    <<"e","x","a","m","p","l","e",".","c","o","m","/","j","o","b","s">>,
    <<"h","t","t","p","s",":","/","/","/","j","o","b","s","/","1">>,
    <<"f","t","p",":","/","/","e","x","a","m","p","l","e",".","c","o","m","/","x">>,
    <<" "," ","h","t","t","p",":","/","/","l","o","c","a","l","h","o","s","t","/","x">>,
    <<"h","t","t","p",":","/","/","0",".","0",".","0",".","0">>,
    <<"h","t","t","p",":","/","/","1","2","7",".","0",".","0",".","1",":","8","0","/">>,
    <<>>,
    <<"h","t","t","p",":","/","/","[","l","o","c","a","l","h","o","s","t","]","/">>,
    <<"h","t","t","p",":","/","/","1","2","7",".","0",".","0",".","2","/">>,
    <<"n","o","t","-","a","-","v","a","l","i","d","-","u","r","l">>,
    <<"h","t","t","p",":","/","/","l","o","c","a","l","h","o","s","t",".","e","x","a","m","p","l","e",".","c","o","m","/">> }

IdleUrl == Url("https", "example.com", Some("example.com"), "/jobs/1")
\* the defaults of extract_job's keyword arguments
DefaultFlags == [use_playwright |-> TRUE, use_llm_fallback |-> TRUE, use_llm_validation |-> TRUE,
                 apply_pii_filter |-> TRUE, check_robots |-> TRUE]

\* the defaults of scrape_and_store_job's keyword arguments (scraper.py 24-27)
ScraperDefaults == [use_playwright |-> TRUE, use_llm_fallback |-> TRUE,
                    use_llm_validation |-> FALSE, check_robots |-> TRUE]

\* keyword arguments: the given ones, and the default for each one left out
Bind(defaults, given) ==
    [f \in DOMAIN defaults |-> IF f \in DOMAIN given THEN given[f] ELSE defaults[f]]

\* the flags extract_job runs with when it is called with the given ones
extract_job_flags(given) == Bind(DefaultFlags, given)

\* scrape_and_store_job binds its own four flags and passes them all on
\* (scraper.py 53-59); apply_pii_filter is left to extract_job
scrape_and_store_job_flags(given) == extract_job_flags(Bind(ScraperDefaults, given))

\* a call of an entry point with some of its flags given
FlagInputs ==
    {[entry |-> "extract_job", given |-> g] :
        g \in UNION {[S -> BOOLEAN] : S \in SUBSET DOMAIN DefaultFlags}}
    \cup
    {[entry |-> "scrape_and_store_job", given |-> g] :
        g \in UNION {[S -> BOOLEAN] : S \in SUBSET DOMAIN ScraperDefaults}}

FunctionInit ==
    /\ pc = "idle"
    /\ url = IdleUrl
    /\ flags = DefaultFlags
    /\ html = None
    /\ result = None
    /\ metrics = InitialMetrics
    /\ exc = ""
    /\ robots_cache = <<>>
    /\ bs4_params = BS4_PARAMS_DECLARED
    /\ ncalls = 0
    /\ calls = NoCalls
    /\ html_via = "none"
    /\ fields_via = None
    /\ raw = None
    /\ prior = 0
    /\ report = None
    /\ parses = NoParses
    /\ out = <<>>
    /\ NoThreads
    /\ \/ op = "is_complete" /\ arg \in CompletenessInputs
       \/ op = "filter_pii_from_result" /\ arg \in RedactionInputs
       \/ op = "filter_pii" /\ arg \in TextInputs
       \/ op = "description" /\ arg \in DescriptionInputs
       \/ op = "_is_valid_url" /\ arg \in UrlStrings
       \/ op = "flags" /\ arg \in FlagInputs

\* result.is_complete()
ApplyIsComplete ==
    /\ op = "is_complete"
    /\ out = <<>>
    /\ out' = <<is_complete(arg)>>
    /\ UNCHANGED <<job_vars, op, arg, shared_vars>>

\* filter_pii_from_result(result)
ApplyFilterFromResult ==
    /\ op = "filter_pii_from_result"
    /\ out = <<>>
    /\ out' = <<filter_pii_from_result(arg)>>
    /\ UNCHANGED <<job_vars, op, arg, shared_vars>>

\* filter_pii(text), then filter_pii of what it returned
ApplyFilter ==
    /\ op = "filter_pii"
    /\ Len(out) < MaxApplications
    /\ out' = Append(out, filter_pii(IF out = <<>> THEN arg ELSE out[Len(out)]))
    /\ UNCHANGED <<job_vars, op, arg, shared_vars>>

\* the description of the result an extractor builds: bs4_extractor.py line 288,
\* llm_extractor.py line 103
ExtractDescription ==
    /\ op = "description"
    /\ out = <<>>
    /\ out' = <<IF arg.extractor = "bs4" THEN _extract_description(arg.page)
                ELSE extract_with_llm(arg.data).description>>
    /\ UNCHANGED <<job_vars, op, arg, shared_vars>>

\* pipeline.py lines 223-225 on that description
RedactDescription ==
    /\ op = "description"
    /\ Len(out) = 1
    /\ arg.apply_pii_filter
    /\ out' = Append(out, filter_pii(out[1]))
    /\ UNCHANGED <<job_vars, op, arg, shared_vars>>

\* _is_valid_url(url)
ApplyIsValidUrl ==
    /\ op = "_is_valid_url"
    /\ out = <<>>
    /\ out' = <<_is_valid_url_of_str(arg)>>
    /\ UNCHANGED <<job_vars, op, arg, shared_vars>>

\* the binding of the flags when an entry point is called
BindFlags ==
    /\ op = "flags"
    /\ out = <<>>
    /\ out' = <<IF arg.entry = "extract_job" THEN extract_job_flags(arg.given)
                ELSE scrape_and_store_job_flags(arg.given)>>
    /\ UNCHANGED <<job_vars, op, arg, shared_vars>>

FunctionNext ==
    \/ ApplyIsComplete
    \/ ApplyFilterFromResult
    \/ ApplyFilter
    \/ ExtractDescription
    \/ RedactDescription
    \/ ApplyIsValidUrl
    \/ BindFlags

FunctionSpec == FunctionInit /\ [][FunctionNext]_vars

-----------------------------------------------------------------------------
(* robots_checker.py under threads.  functools.lru_cache looks the key up, *)
(* calls _fetch_robots_txt on a miss without holding a lock, and stores    *)
(* the value afterwards unless the key has been stored meanwhile; a hit    *)
(* makes the entry the most recently used one, and an insert into a cache  *)
(* of maxsize entries drops the least recently used one.                   *)

Threads == 1..MaxThreads

\* @lru_cache(maxsize=256)
ROBOTS_CACHE_MAXSIZE == 256

\* a thread outside any call, with the locals of its last call
IdleThread == [pc |-> "idle", task |-> "none", url |-> IdleUrl, answer |-> None, rp |-> None,
               browser |-> None, page |-> FALSE, ret |-> <<>>]

\* every job var as it is while extract_job does not run
JobIdle ==
    /\ pc = "idle" /\ url = IdleUrl /\ flags = DefaultFlags /\ html = None /\ result = None
    /\ metrics = InitialMetrics /\ exc = "" /\ robots_cache = <<>>
    /\ bs4_params = BS4_PARAMS_DECLARED /\ ncalls = 0 /\ calls = NoCalls
    /\ html_via = "none" /\ fields_via = None /\ raw = None /\ prior = 0
    /\ report = None /\ parses = NoParses
    /\ op = "threads" /\ arg = None /\ out = <<>>

CacheHas(c, k) == \E i \in 1..Len(c) : c[i].key = k
CacheAt(c, k) == CHOOSE i \in 1..Len(c) : c[i].key = k

\* the cache after a hit on k
Touched(c, k) ==
    SubSeq(c, 1, CacheAt(c, k) - 1) \o SubSeq(c, CacheAt(c, k) + 1, Len(c)) \o <<c[CacheAt(c, k)]>>

\* the cache after the value computed for k is handed to it
Inserted(c, k, v) ==
    IF CacheHas(c, k) THEN c
    ELSE (IF Len(c) >= ROBOTS_CACHE_MAXSIZE THEN Tail(c) ELSE c) \o <<[key |-> k, value |-> v]>>

\* the GETs issued for k
Gets(k) == IF k \in DOMAIN gets THEN gets[k] ELSE 0

\* is_allowed(url) or get_crawl_delay(url), up to the cache lookup (lines 68-69, 94-95)
CallRobots(t, task, u) ==
    /\ thread[t].pc = "idle"
    /\ IF CacheHas(cache, get_robots_url(u))
       THEN /\ cache' = Touched(cache, get_robots_url(u))
            /\ thread' = [thread EXCEPT ![t] =
                   [IdleThread EXCEPT !.pc = "return", !.task = task, !.url = u,
                                      !.rp = cache[CacheAt(cache, get_robots_url(u))].value]]
       ELSE /\ cache' = cache
            /\ thread' = [thread EXCEPT ![t] =
                   [IdleThread EXCEPT !.pc = "get", !.task = task, !.url = u]]
    /\ UNCHANGED <<gets, _browser, browsers, pages, job_vars, fn_vars>>

\* _fetch_robots_txt, lines 27-49: the GET and what is made of its answer
GetRobots(t, answers) ==
    /\ thread[t].pc = "get"
    /\ \E answer \in answers :
         thread' = [thread EXCEPT ![t].pc = "store", ![t].answer = Some(answer),
                                  ![t].rp = _fetch_robots_txt(answer)]
    /\ gets' = [k \in DOMAIN gets \cup {get_robots_url(thread[t].url)} |->
                   IF k = get_robots_url(thread[t].url) THEN Gets(k) + 1 ELSE gets[k]]
    /\ UNCHANGED <<cache, _browser, browsers, pages, job_vars, fn_vars>>

\* lru_cache stores the value and returns it
StoreRobots(t) ==
    /\ thread[t].pc = "store"
    /\ cache' = Inserted(cache, get_robots_url(thread[t].url), thread[t].rp)
    /\ thread' = [thread EXCEPT ![t].pc = "return"]
    /\ UNCHANGED <<gets, _browser, browsers, pages, job_vars, fn_vars>>

\* is_allowed lines 71-81, get_crawl_delay lines 97-101; the robots.txt files
\* of RobotsAnswers have no Crawl-delay line
ReturnRobots(t) ==
    /\ thread[t].pc = "return"
    /\ thread' = [thread EXCEPT ![t].pc = "idle",
                     ![t].ret = IF thread[t].task = "is_allowed"
                                THEN <<is_allowed(thread[t].rp, thread[t].url)>>
                                ELSE <<None>>]
    /\ UNCHANGED <<cache, gets, _browser, browsers, pages, job_vars, fn_vars>>

\* urls of two sites, two of them with the same robots.txt
RobotsUrls == {
    Url("https", "example.com", Some("example.com"), "/jobs/1"),
    Url("https", "example.com", Some("example.com"), "/jobs/2"),
    Url("http", "jobs.example.org", Some("jobs.example.org"), "/jobs/1") }

ThreadsInit ==
    /\ JobIdle
    /\ thread = [t \in Threads |-> IdleThread]
    /\ cache = <<>>
    /\ gets = <<>>
    /\ _browser = None
    /\ browsers = {}
    /\ pages = {}

RobotsNext ==
    \E t \in Threads :
        \/ \E task \in {"is_allowed", "get_crawl_delay"}, u \in RobotsUrls : CallRobots(t, task, u)
        \/ GetRobots(t, RobotsAnswers)
        \/ StoreRobots(t)
        \/ ReturnRobots(t)

\* threads that call is_allowed and get_crawl_delay at any time
RobotsSpec == ThreadsInit /\ [][RobotsNext]_vars

-----------------------------------------------------------------------------
(* Properties *)

\* the invocation returned to its caller
Returned == pc = "done"

\* the url fails the safety validator: read off the url, not off _is_valid_url
UnsafeUrl == \/ url.scheme \notin {"http", "https"}
             \/ url.netloc = ""
             \/ url.hostname \in {Some("localhost"), Some("127.0.0.1"), Some("0.0.0.0"), Some("::1")}

\* the robots.txt cached for the url's site disallows its path
RobotsDisallow ==
    /\ get_robots_url(url) \in DOMAIN robots_cache
    /\ robots_cache[get_robots_url(url)] # None
    /\ url.path \in robots_cache[get_robots_url(url)][1]

\* C1: for a url that fails the safety validator, and for a url the robots check
\* disallows while check_robots is on, the invocation never leaves the two gates:
\* no primary fetch, rendered fetch, LLM extraction, validation or redaction is
\* made, and what it returns is a null result, confidence 0.0, fallbacks_used 0.
C1_GatesStopPipeline ==
    (UnsafeUrl \/ (flags.check_robots /\ RobotsDisallow)) =>
        /\ pc \in {"ValidateURL", "CheckRobots", "done"}
        /\ calls = NoCalls
        /\ html = None
        /\ result = None
        /\ metrics.confidence = 0
        /\ metrics.fallbacks_used = 0

C1_Witness ==
    /\ Returned
    /\ ~UnsafeUrl
    /\ flags.check_robots
    /\ RobotsDisallow
    /\ ncalls = 2

\* C2: once the url has passed the two gates, no exception leaves extract_job,
\* whatever the fetchers, the LLM extractor and the validator answer.
C2_NoException == pc # "raised"

NoPrimaryContent == calls.requests = 1 /\ (html = None \/ ~html[1].nonempty)

\* C11: when the requests fetch leaves no content, with use_playwright off and
\* use_llm_fallback on, the LLM extractor is never called, the result stays null
\* and fallbacks_used stays 0.
C11_NoContentNoLLM ==
    (NoPrimaryContent /\ ~flags.use_playwright /\ flags.use_llm_fallback) =>
        /\ calls.llm = 0
        /\ result = None
        /\ metrics.fallbacks_used = 0
        /\ pc # "raised"

C11_Witness ==
    /\ Returned
    /\ html = None
    /\ calls.requests = 1
    /\ ~flags.use_playwright
    /\ flags.use_llm_fallback

\* C12: when the requests fetch returns a page in which the parser finds neither
\* title nor company, with use_playwright off, the invocation ends with the result
\* "Unknown Title" / "Unknown" / location null / salary null, confidence 0.3 and
\* fallbacks_used 0.
C12_BarePageDefaults ==
    (/\ pc \in {"done", "raised"}
     /\ calls.requests = 1
     /\ ~flags.use_playwright
     /\ html = Some(BARE_HTML)) =>
        /\ Returned
        /\ result # None
        /\ result[1].title = DEFAULT_TITLE
        /\ result[1].company = DEFAULT_COMPANY
        /\ result[1].location = None
        /\ result[1].salary = None
        /\ metrics.confidence = 30
        /\ metrics.fallbacks_used = 0

\* C13: an invocation ends in one of two ways, a non-null result with metrics or a
\* null result with confidence 0.0, and it ends with a null result only if it made
\* no fetch of the page.
C13_TwoOutcomes ==
    pc \in {"done", "raised"} =>
        /\ Returned
        /\ result = None => /\ metrics.confidence = 0
                            /\ calls.requests = 0
                            /\ calls.playwright = 0

\* the place of each step of extract_job in the order ValidateURL, CheckRobots,
\* FetchPrimary, ParseStructured, FetchSecondary + ParseStructured, LLMExtract,
\* Validate, Redact, Done
StageRank == [s \in {"ValidateURL", "CheckRobots", "FetchPrimary", "ParsePrimary", "TryPlaywright",
                     "TryLLM", "Validate", "Filter", "done", "raised"} |->
                 CASE s = "ValidateURL" -> 1
                   [] s = "CheckRobots" -> 2
                   [] s = "FetchPrimary" -> 3
                   [] s = "ParsePrimary" -> 4
                   [] s = "TryPlaywright" -> 5
                   [] s = "TryLLM" -> 6
                   [] s = "Validate" -> 7
                   [] s = "Filter" -> 8
                   [] OTHER -> 9]

ScanSite(n) == Url("https", "site" \o ToString(n), Some("site" \o ToString(n)), "/jobs/1")

\* the sites other than site 0 queried so far
OtherSitesSeen == Cardinality(DOMAIN gets \ {get_robots_url(ScanSite(0))})

\* one thread: at any time it asks about site 0 again or about a site it has not
\* asked about yet; no site has a robots.txt
ScanNext ==
    \/ CallRobots(1, "is_allowed", ScanSite(0))
    \/ /\ OtherSitesSeen < ROBOTS_CACHE_MAXSIZE
       /\ CallRobots(1, "get_crawl_delay", ScanSite(OtherSitesSeen + 1))
    \/ GetRobots(1, {a \in RobotsAnswers : a.kind = "status" /\ a.code = 404})
    \/ StoreRobots(1)
    \/ ReturnRobots(1)

\* a sequence of is_allowed and get_crawl_delay calls over many sites
ScanSpec == ThreadsInit /\ [][ScanNext]_vars

-----------------------------------------------------------------------------
(* playwright_fetch.py under threads: _fetch_with_playwright of pipeline.py *)
(* calls fetch_with_playwright, which runs fetch_with_playwright_async.    *)

\* pipeline.py 72-77, playwright_fetch.py 78 and 46: the call reaches _get_browser
CallPlaywright(t) ==
    /\ thread[t].pc = "idle"
    /\ thread' = [thread EXCEPT ![t] =
           [IdleThread EXCEPT !.pc = "get_browser", !.task = "fetch_with_playwright"]]
    /\ UNCHANGED <<cache, gets, _browser, browsers, pages, job_vars, fn_vars>>

\* _get_browser, line 22 and, for a browser that exists, line 30
TestBrowser(t) ==
    /\ thread[t].pc = "get_browser"
    /\ thread' = IF _browser = None
                 THEN [thread EXCEPT ![t].pc = "launch"]
                 ELSE [thread EXCEPT ![t].pc = "new_page", ![t].browser = _browser]
    /\ UNCHANGED <<cache, gets, _browser, browsers, pages, job_vars, fn_vars>>

\* _get_browser, lines 23-30: Playwright starts and launches a browser, or the
\* import or the launch raises and pipeline.py 78-80 returns None
LaunchBrowser(t) ==
    /\ thread[t].pc = "launch"
    /\ \/ /\ browsers' = browsers \cup {Cardinality(browsers) + 1}
          /\ _browser' = Some(Cardinality(browsers) + 1)
          /\ thread' = [thread EXCEPT ![t].pc = "new_page",
                                      ![t].browser = Some(Cardinality(browsers) + 1)]
       \/ /\ thread' = [thread EXCEPT ![t].pc = "idle", ![t].ret = <<None>>]
          /\ UNCHANGED <<_browser, browsers>>
    /\ UNCHANGED <<cache, gets, pages, job_vars, fn_vars>>

\* fetch_with_playwright_async, line 47
NewPage(t) ==
    /\ thread[t].pc = "new_page"
    /\ pages' = pages \cup {[browser |-> thread[t].browser[1], owner |-> t]}
    /\ thread' = [thread EXCEPT ![t].pc = "goto", ![t].page = TRUE]
    /\ UNCHANGED <<cache, gets, _browser, browsers, job_vars, fn_vars>>

\* lines 49-62: the navigation gives the content, or fails or times out
Navigate(t) ==
    /\ thread[t].pc = "goto"
    /\ \E answer \in FetchAnswers :
         thread' = [thread EXCEPT ![t].pc = "close", ![t].answer = Some(answer)]
    /\ UNCHANGED <<cache, gets, _browser, browsers, pages, job_vars, fn_vars>>

\* variant: the page closed after line 56 and not in a finally clause
ClosePage_unless_failed(t) ==
    /\ thread[t].pc = "close"
    /\ pages' = IF thread[t].answer[1].kind = "text"
                THEN pages \ {[browser |-> thread[t].browser[1], owner |-> t]} ELSE pages
    /\ thread' = [thread EXCEPT ![t].pc = "idle", ![t].page = (thread[t].answer[1].kind # "text"),
                                ![t].ret = <<_fetch_with_playwright(thread[t].answer[1])>>]
    /\ UNCHANGED <<cache, gets, _browser, browsers, job_vars, fn_vars>>

\* lines 64-65, then the return of line 58, or the raise of line 62 which
\* pipeline.py 78-80 turns into None
ClosePage(t) ==
    /\ thread[t].pc = "close"
    /\ pages' = pages \ {[browser |-> thread[t].browser[1], owner |-> t]}
    /\ thread' = [thread EXCEPT ![t].pc = "idle", ![t].page = FALSE,
                                ![t].ret = <<_fetch_with_playwright(thread[t].answer[1])>>]
    /\ UNCHANGED <<cache, gets, _browser, browsers, job_vars, fn_vars>>

BrowserNext ==
    \E t \in Threads :
        \/ CallPlaywright(t)
        \/ TestBrowser(t)
        \/ LaunchBrowser(t)
        \/ NewPage(t)
        \/ Navigate(t)
        \/ ClosePage(t)

\* threads that make rendered fetches at any time
BrowserSpec == ThreadsInit /\ [][BrowserNext]_vars

\* the function op was applied to arg and returned
Applied(f) == op = f /\ out # <<>>

\* C16: is_complete() of a result is true exactly when its title is not
\* "Unknown Title", its company is not "Unknown", and both have a character that
\* is no whitespace; it is the same whatever location, salary, description and
\* source are.
C16_IsCompleteIff ==
    Applied("is_complete") =>
        /\ out[1] = (/\ arg.title # <<"U","n","k","n","o","w","n"," ","T","i","t","l","e">>
                     /\ arg.company # <<"U","n","k","n","o","w","n">>
                     /\ \E i \in 1..Len(arg.title) : arg.title[i] \notin {" ", "\t", "\n"}
                     /\ \E i \in 1..Len(arg.company) : arg.company[i] \notin {" ", "\t", "\n"})
        /\ \A r \in CompletenessInputs :
               (r.title = arg.title /\ r.company = arg.company) => is_complete(r) = out[1]

C16_Witness ==
    /\ Applied("is_complete")
    /\ arg.title = Sample.tabs
    /\ arg.company = S_Acme
    /\ arg.description # None
    /\ out = <<FALSE>>

\* C17: filter_pii_from_result returns a result whose title, company, location,
\* salary and source are those of its argument, and whose description is null when
\* the argument's is.
C17_RedactionFrame ==
    Applied("filter_pii_from_result") =>
        /\ out[1].title = arg.title
        /\ out[1].company = arg.company
        /\ out[1].location = arg.location
        /\ out[1].salary = arg.salary
        /\ out[1].source = arg.source
        /\ arg.description = None => out[1].description = None

C17_Witness ==
    /\ Applied("filter_pii_from_result")
    /\ arg.title = Sample.mail
    /\ arg.location # None
    /\ arg.description = Some(D_Contact)
    /\ out[1].description # arg.description
    /\ out[1].title = Sample.mail

\* C18: filter_pii applied to its own value returns that value; a text that
\* consists of the substitution tokens, and a text of plain words, spaces and line
\* breaks, is returned as it is.
C18_Idempotent ==
    (op = "filter_pii" /\ Len(out) >= 2) =>
        /\ out[2] = out[1]
        /\ arg \in {Some(T_EMAIL), Some(T_PHONE), Some(T_LINKEDIN), Some(T_HANDLE)} => out[1] = arg
        /\ (arg # None /\ arg[1] \in TextsOf(PlainFragments, MaxFragments)) => out[1] = arg

\* w occurs in s
Contains(s, w) == \E i \in 0..(Len(s) - Len(w)) : SubSeq(s, i + 1, i + Len(w)) = w

\* the email address and the phone numbers that occur in the pages' descriptions
RawEmails == {Sample.email}
RawPhones == {Sample.phone, Sample.uk_phone}

DescriptionFinal ==
    /\ op = "description"
    /\ \/ Len(out) = 2
       \/ Len(out) = 1 /\ ~arg.apply_pii_filter

\* C20: the description of a returned result has at most 10,000 characters,
\* whether it comes from the JSON-LD description, a selector match, the
\* readability extraction or the LLM.
C20_DescriptionCapped ==
    DescriptionFinal =>
        (out[Len(out)] # None => Len(out[Len(out)][1]) <= 10000)

\* C21: _is_valid_url returns a boolean for every string, and returns FALSE
\* exactly for a url whose scheme is missing or is not http or https, whose host
\* is missing, or whose host is localhost, 127.0.0.1, 0.0.0.0 or ::1.
C21_ValidatorVerdict ==
    Applied("_is_valid_url") =>
        /\ out[1] \in BOOLEAN
        /\ ~urlparse(arg).raises =>
              out[1] = ~(\/ urlparse(arg).scheme \notin {"http", "https"}
                         \/ urlparse(arg).hostname = None
                         \/ urlparse(arg).hostname \in {Some("localhost"), Some("127.0.0.1"),
                                                        Some("0.0.0.0"), Some("::1")})

\* C26: a flag that is not given is on for use_playwright, use_llm_fallback,
\* apply_pii_filter and check_robots and off for use_llm_validation; a call that
\* gives no flag at all runs without the quality validator.
C26_FlagDefaults ==
    Applied("flags") =>
        /\ \A f \in DOMAIN out[1] \ DOMAIN arg.given : out[1][f] = (f # "use_llm_validation")
        /\ DOMAIN arg.given = {} =>
               \A r \in CompletenessInputs : ~should_validate(out[1], Some(r))

Returned_from(t, task) == thread[t].pc = "idle" /\ thread[t].task = task /\ thread[t].ret # <<>>

C24_OneGetUnderThreads ==
    \A t1 \in Threads, t2 \in Threads :
        (/\ t1 # t2
         /\ thread[t1].task = "is_allowed" /\ thread[t2].task = "is_allowed"
         /\ get_robots_url(thread[t1].url) = get_robots_url(thread[t2].url))
        => ~(thread[t1].answer # None /\ thread[t2].answer # None)

\* C23: in a sequence of is_allowed and get_crawl_delay calls, no robots.txt is
\* fetched a second time, however many other sites are asked about in between.
C23_FetchedAtMostOnce ==
    \A k \in DOMAIN gets : gets[k] <= 1

\* C25: at most one browser is launched, and every rendered fetch has its page on
\* the browser that _browser holds.
C25_OneBrowserLaunched ==
    /\ Cardinality(browsers) <= 1
    /\ \A p \in pages : _browser = Some(p.browser)

SecondCallOver == Len(out) = 1 /\ pc \in {"done", "raised"}

\* the two calls ended alike: both raised or both returned, a result or null,
\* of the same completeness, with the same confidence
SameOutcome ==
    /\ out[1].raised = Came.raised
    /\ out[1].returned = Came.returned
    /\ out[1].complete = Came.complete
    /\ out[1].confidence = Came.confidence

====
